---- MODULE Spec2Model ----
(***************************************************************************)
(* Model of the sandbox supervisor in src/main.cpp: main() builds the jail *)
(* and registers the hooks, the jail runs the hooks in the pre-exec        *)
(* process, MetaInit() forks the target, supervises it and writes the meta *)
(* record.  The kernel, the clock, the target and the observer thread are  *)
(* modelled as a nondeterministic environment.                             *)
(***************************************************************************)
EXTENDS Integers, Sequences, FiniteSets, TLC

(***************************************************************************)
(* Program constants.                                                      *)
(***************************************************************************)
kLoggingFd == 3
kMetaFd == 4
kSigsysNotificationFd == 5

STDIN_FILENO == 0
STDOUT_FILENO == 1
STDERR_FILENO == 2

SIGTRAP == 5
SIGABRT == 6
SIGKILL == 9
SIGUSR1 == 10
SIGSTOP == 19
SIGXCPU == 24
SIGXFSZ == 25
SIGSYS == 31
\* A real-time signal: delivered like any other, absent from kSignalMap.
SIGRTMIN == 34

\* The signals kSignalMap names (1..31 without 32, 33 and above).
kSignalMap == 1..31

\* The pid of the forked child in a fresh pid namespace: the literal "2" of the
\* admission writes.
kAdmittedPid == 2

(***************************************************************************)
(* Bounds of the model.                                                    *)
(***************************************************************************)
\* The nanosecond base 1000000000 of struct timespec, scaled down.
NsecBase == 2
\* The clock is not advanced past this many seconds.
MaxSec == 2
\* Largest ru_maxrss (KiB) the kernel reports in the model.
MaxRss == 1
\* The history counts the stops wait3 reports up to this many.
MaxStops == 2

Streams == {STDIN_FILENO, STDOUT_FILENO, STDERR_FILENO}

VARIABLES
    cfg,          \* Args and the facts of the host, fixed for the run
    mpc,          \* main(): position
    mret,         \* main(): exit status, -1 while running
    hooks,        \* the jail's PRE_DROP_CAPS hooks, in insertion order
    xhooks,       \* the jail's PRE_EXECVE hooks, in insertion order
    binds,        \* the stdio streams bind-mounted under /mnt/stdio
    cgroup_path   \* InitPayload::cgroup_path is non-empty

VARIABLES
    hpc,          \* the pre-exec process (after the fork: the child): position
    hidx,         \* index in hooks of the hook it runs
    hret,         \* the value its failing hook returned, 0 while none failed
    tfds,         \* the reserved fds open in it
    opened,       \* the standard streams RedirectStdio has put on fds 0/1/2
    mnt,          \* /mnt/stdio is attached in its mount namespace
    did_setsid    \* it leads a session and process group of its own

VARIABLES
    cg,           \* MetaInit's cgroup handles (after the fork: the parent's copies)
    cgc,          \* the forked child's copies of the handles
    cgfs          \* the cgroup files: limit, admissions, seals, directories

VARIABLES
    ipc,             \* meta-init (MetaInit's parent branch): position
    child_pid,
    init_exited,
    init_exitstatus,
    init_exitsyscall,
    init_exitsignal,
    init_usage,      \* ru_maxrss of the captured rusage
    attached,
    t0, t, deadline, \* struct timespec as <<tv_sec, tv_nsec>>
    sigsys_socket_fd, \* meta-init's end of the sigsys socket is open
    at_deadline,     \* history: what was recorded when the deadline check
                     \* after the loop found the deadline reached
    failcnt,         \* uint64_t failcnt
    pid,             \* the pid of the stop wait3 reported, 0 outside a dispatch
    stop_signal,     \* the signal of that stop, -1 outside a dispatch
    ptraced          \* history: the stops wait3 has reported (counted up to
                     \* MaxStops) and the pids PTRACE_SETOPTIONS was issued on

VARIABLES
    now,          \* CLOCK_REALTIME at its last observation, in clock units
    proc,         \* the forked child as the kernel sees it
    sigchld,      \* SIGCHLD is pending for meta-init
    notif,        \* the syscall number of the target's pending seccomp user
                  \* notification; -1: none yet, -2: answered
    desc,         \* a process the target has forked, as the kernel sees it
    eintr,        \* a signal was caught in meta-init while the waiting call
                  \* it is in was blocked: the call returns -1 with EINTR
    opc,          \* the observer thread: position
    sock_fd,      \* the pidfd message on the sigsys socket
    sock_nr,      \* the syscall number the observer wrote to the socket, or -1
    meta,         \* the lines written to the meta fd
    iret          \* the wait status the jail's init process ended with, or -1

mainVars == <<mpc, mret, hooks, xhooks, binds, cgroup_path>>
jailVars == <<hpc, hidx, hret, tfds, opened, mnt, did_setsid>>
cgVars == <<cg, cgc, cgfs>>
initVars == <<ipc, child_pid, init_exited, init_exitstatus, init_exitsyscall,
              init_exitsignal, init_usage, attached, t0, t, deadline,
              sigsys_socket_fd, at_deadline, failcnt, pid, stop_signal,
              ptraced>>
envVars == <<now, proc, sigchld, notif, desc, eintr>>
obsVars == <<opc, sock_fd, sock_nr>>
outVars == <<meta, iret>>

rtVars == <<jailVars, cgVars, initVars, envVars, obsVars, outVars>>

vars == <<cfg, mainVars, jailVars, cgVars, initVars, envVars, obsVars, outVars>>

(***************************************************************************)
(* Configurations: struct Args after Parse, and what the host is.          *)
(***************************************************************************)
\* The fields of Args that are read at several places, and what the host is.
\* A field that is read at one place only (script_basename, wall_time_limit_msec,
\* vm_memory_size_in_bytes) is drawn where it is read.
Redirections == {{}, {STDIN_FILENO}, Streams}

Configs ==
    [ disable_sandboxing : BOOLEAN,
      meta               : BOOLEAN,       \* args.meta is non-empty
      chdir              : BOOLEAN,       \* args.chdir is non-empty
      redirects          : Redirections,  \* the streams with a redirect path
      cgv2               : BOOLEAN,       \* IsCgroupV2()
      memory_limit       : {-1, 2} ]      \* args.memory_limit_in_bytes

\* payload.timeout: wall_time_limit_msec as <<tv_sec, tv_nsec>>.
Timeouts == {<<1, 1>>}

\* args.vm_memory_size_in_bytes.
VmSizes == {0, 4096}

CgNames == {"unified", "memory", "pid"}

\* A handle is "null" (no ScopedCgroup), "owned" (its destructor will rmdir)
\* or "released" (release() disarmed it).
NoCgroups == [c \in CgNames |-> "null"]

NoCgroupFiles ==
    [ limit |-> "none",                      \* "none", "written", "sealed"
      adm   |-> [c \in CgNames |-> 0],       \* the pid written to procs/tasks
      seal  |-> [c \in CgNames |-> FALSE],   \* procs/tasks is chmod 0444
      dir   |-> [c \in CgNames |-> FALSE] ]  \* the directory exists

NoDeadline == [hit |-> FALSE, exited |-> FALSE, signal |-> -1, syscall |-> -1]

\* A process: its state, its wait status, whether wait3 has reported it, the
\* signal its last PTRACE_CONT injected (sig), the syscall of its SIGSYS stop
\* (nr), and whether it is in the process group of the forked child (grp).
NoProc == [st |-> "none", status |-> 0, rep |-> TRUE, sig |-> 0, nr |-> -1,
           grp |-> TRUE]

\* Nothing traced yet.
NoPtrace == [stops |-> 0, first |-> 0, setoptions |-> <<>>]

Init ==
    /\ cfg \in Configs
    /\ mpc = "affinity"
    /\ mret = -1
    /\ hooks = <<>>
    /\ xhooks = <<>>
    /\ binds = {}
    /\ cgroup_path = FALSE
    /\ hpc = "none" /\ hidx = 0 /\ hret = 0
    /\ tfds = {} /\ opened = {} /\ mnt = FALSE /\ did_setsid = FALSE
    /\ cg = NoCgroups /\ cgc = NoCgroups /\ cgfs = NoCgroupFiles
    /\ ipc = "none" /\ child_pid = 0
    /\ init_exited = FALSE /\ init_exitstatus = 0
    /\ init_exitsyscall = -1 /\ init_exitsignal = -1
    /\ init_usage = 0 /\ attached = FALSE
    /\ t0 = <<0, 0>> /\ t = <<0, 0>> /\ deadline = <<0, 0>>
    /\ sigsys_socket_fd = FALSE
    /\ at_deadline = NoDeadline
    /\ failcnt = 0 /\ pid = 0 /\ stop_signal = -1 /\ ptraced = NoPtrace
    /\ now = 0 /\ proc = NoProc /\ sigchld = FALSE /\ notif = -1
    /\ desc = NoProc
    /\ eintr = FALSE
    /\ opc = "none" /\ sock_fd = "none" /\ sock_nr = -1
    /\ meta = <<>> /\ iret = -1

\* return <status> from main().
MainReturn(status) ==
    /\ mpc' = "done"
    /\ mret' = status

\* sched_getaffinity / sched_setaffinity.
MainAffinity ==
    /\ mpc = "affinity"
    /\ \E ok \in BOOLEAN :
         IF ok THEN mpc' = "logging" /\ UNCHANGED mret
         ELSE MainReturn(1)
    /\ UNCHANGED <<cfg, hooks, xhooks, binds, cgroup_path, rtVars>>

\* dup2(STDERR_FILENO, kLoggingFd), minijail_preserve_fd.
MainLoggingFd ==
    /\ mpc = "logging"
    /\ \E ok \in BOOLEAN :
         IF ok THEN mpc' = "parse" /\ UNCHANGED mret
         ELSE MainReturn(1)
    /\ UNCHANGED <<cfg, hooks, xhooks, binds, cgroup_path, rtVars>>

\* args.Parse(argc, argv, j): cfg is what a successful parse yields.
MainParse ==
    /\ mpc = "parse"
    /\ \E ok \in BOOLEAN :
         IF ok THEN mpc' = "setup" /\ UNCHANGED mret
         ELSE MainReturn(1)
    /\ UNCHANGED <<cfg, hooks, xhooks, binds, cgroup_path, rtVars>>

\* The sandboxed branch: namespaces, /proc, /mnt/stdio, the remount hook, the
\* stdio bind mounts and the v1 memory cgroup mount.
MainSandboxSetup ==
    /\ mpc = "setup"
    /\ ~cfg.disable_sandboxing
    /\ \E out \in {"ok", "mount", "hook", "die"} :
         CASE out = "ok" ->
                /\ hooks' = Append(hooks, "RemountRootReadOnly")
                /\ binds' = cfg.redirects
                /\ mpc' = "chdir"
                /\ UNCHANGED mret
           [] out = "mount" ->
                \* minijail_mount of /proc, /mnt/stdio fails, before the hook
                /\ MainReturn(1)
                /\ UNCHANGED <<hooks, binds>>
           [] out = "hook" ->
                /\ MainReturn(1)
                /\ UNCHANGED <<hooks, binds>>
           [] out = "die" ->
                \* InstallStdioRedirectOrDie: LOG(FATAL); or the memory cgroup mount
                /\ cfg.redirects # {} \/ (cfg.memory_limit >= 0 /\ ~cfg.cgv2)
                /\ hooks' = Append(hooks, "RemountRootReadOnly")
                /\ MainReturn(1)
                /\ UNCHANGED binds
    /\ UNCHANGED <<cfg, xhooks, cgroup_path, rtVars>>

\* The --disable-sandboxing branch: unredirected standard fds are preserved.
MainUnsandboxedSetup ==
    /\ mpc = "setup"
    /\ cfg.disable_sandboxing
    /\ \/ mpc' = "chdir" /\ UNCHANGED mret
       \/ /\ cfg.redirects # Streams
          /\ MainReturn(1)
    /\ UNCHANGED <<cfg, hooks, xhooks, binds, cgroup_path, rtVars>>

\* A registration that puts Chdir in front of the hooks registered so far: the
\* order of the hooks list is sensitive to where main() registers Chdir.
MainChdirHookFirst ==
    /\ mpc = "chdir"
    /\ hooks' = IF cfg.chdir THEN <<"Chdir">> \o hooks ELSE hooks
    /\ mpc' = "cgroup"
    /\ UNCHANGED <<cfg, mret, xhooks, binds, cgroup_path, rtVars>>

\* if (!args.chdir.empty()) minijail_add_hook(Chdir, PRE_DROP_CAPS).
MainChdirHook ==
    /\ mpc = "chdir"
    /\ hooks' = IF cfg.chdir THEN Append(hooks, "Chdir") ELSE hooks
    /\ mpc' = "cgroup"
    /\ UNCHANGED <<cfg, mret, xhooks, binds, cgroup_path, rtVars>>

\* The status the shell sees for `return -errno` from main().
ExitStatusOf(v) == v % 256

Errnos == {13}

\* The cgroup path of the script: access, mkdir, subtree control, bind mount.
MainCgroupPath ==
    /\ mpc = "cgroup"
    /\ \/ \* args.script_basename is empty
          /\ cgroup_path' = FALSE
          /\ mpc' = "payload"
          /\ UNCHANGED mret
       \/ \E out \in {"noaccess", "ok", "subtree", "mkdir", "mount"} :
              CASE out = "noaccess" ->
                     /\ cgroup_path' = FALSE
                     /\ mpc' = "payload"
                     /\ UNCHANGED mret
                [] out = "ok" ->
                     /\ cgroup_path' = TRUE
                     /\ mpc' = "payload"
                     /\ UNCHANGED mret
                [] out = "subtree" ->
                     /\ cfg.cgv2
                     /\ cgroup_path' = TRUE
                     /\ \E e \in Errnos : MainReturn(ExitStatusOf(-e))
                [] out = "mkdir" ->
                     /\ cfg.cgv2
                     /\ cgroup_path' = TRUE
                     /\ MainReturn(1)
                [] out = "mount" ->
                     /\ ~cfg.disable_sandboxing
                     /\ cgroup_path' = TRUE
                     /\ MainReturn(1)
    /\ UNCHANGED <<cfg, hooks, xhooks, binds, rtVars>>

\* Meta enabled: the meta fd, the sigsys socketpair, init's jail, the MetaInit hook.
MainMetaSetup ==
    /\ mpc = "payload"
    /\ cfg.meta
    /\ \E ok \in BOOLEAN :
         IF ok
         THEN /\ hooks' = Append(hooks, "MetaInit")
              /\ mpc' = "redirect"
              /\ UNCHANGED mret
         ELSE /\ MainReturn(1)
              /\ UNCHANGED hooks
    /\ UNCHANGED <<cfg, xhooks, binds, cgroup_path, rtVars>>

\* Meta disabled: rlimits are set by a hook of the pre-exec process.
MainRlimitHook ==
    /\ mpc = "payload"
    /\ ~cfg.meta
    /\ hooks' = Append(hooks, "SetResourceLimits")
    /\ mpc' = "redirect"
    /\ UNCHANGED <<cfg, mret, xhooks, binds, cgroup_path, rtVars>>

\* "This must be the last pre-drop caps hook to be run."
MainRedirectHook ==
    /\ mpc = "redirect"
    /\ hooks' = IF cfg.redirects # {} THEN Append(hooks, "RedirectStdio") ELSE hooks
    /\ mpc' = "closelog"
    /\ UNCHANGED <<cfg, mret, xhooks, binds, cgroup_path, rtVars>>

\* A registration of CloseLoggingFd as a PRE_DROP_CAPS hook, after
\* RedirectStdio.
MainCloseLoggingHookPreDropCaps ==
    /\ mpc = "closelog"
    /\ hooks' = Append(hooks, "CloseLoggingFd")
    /\ mpc' = "run"
    /\ UNCHANGED <<cfg, mret, xhooks, binds, cgroup_path, rtVars>>

\* minijail_add_hook(CloseLoggingFd, PRE_EXECVE).
MainCloseLoggingHook ==
    /\ mpc = "closelog"
    /\ xhooks' = Append(xhooks, "CloseLoggingFd")
    /\ mpc' = "run"
    /\ UNCHANGED <<cfg, mret, hooks, binds, cgroup_path, rtVars>>

(***************************************************************************)
(* Wait statuses as the kernel encodes them, and the <sys/wait.h> macros.  *)
(***************************************************************************)
ExitedStatus(code) == code * 256
SignaledStatus(sig) == sig
StoppedStatus(sig) == sig * 256 + 127

WIFEXITED(status) == status % 128 = 0
WEXITSTATUS(status) == (status \div 256) % 256
WIFSIGNALED(status) == status % 128 # 0 /\ status % 128 # 127
WTERMSIG(status) == status % 128
WIFSTOPPED(status) == status % 256 = 127
WSTOPSIG(status) == (status \div 256) % 256

(***************************************************************************)
(* struct timespec arithmetic, on <<tv_sec, tv_nsec>>.                     *)
(***************************************************************************)
TimespecAdd(dst, src) ==
    LET nsec == dst[2] + src[2] IN
    IF nsec > NsecBase
    THEN <<dst[1] + 1 + src[1], nsec - NsecBase>>
    ELSE <<dst[1] + src[1], nsec>>

TimespecSub(dst, src) ==
    LET nsec == dst[2] - src[2] IN
    IF nsec < 0
    THEN <<dst[1] - 1 - src[1], nsec + NsecBase>>
    ELSE <<dst[1] - src[1], nsec>>

TimespecCmp(dst, src) ==
    IF dst[1] < src[1] THEN -1
    ELSE IF dst[1] > src[1] THEN 1
    ELSE IF dst[2] < src[2] THEN -1
    ELSE IF dst[2] > src[2] THEN 1
    ELSE 0

\* clock_gettime's result for the clock value c, and the clock value of a pair.
ClockTimespec(c) == <<c \div NsecBase, c % NsecBase>>
ClockUnits(ts) == ts[1] * NsecBase + ts[2]
MaxClock == MaxSec * NsecBase

(***************************************************************************)
(* The jail library runs the hooks in the pre-exec process, in insertion   *)
(* order, and aborts the launch when one returns non-zero.                 *)
(***************************************************************************)
Alive == proc.st = "alive"

\* The position after hook number i - 1 has returned 0.
HookPc(i) == IF i > Len(hooks) THEN "prexec" ELSE "hook"

AtHook(name) ==
    /\ hpc = "hook"
    /\ hooks[hidx] = name
    /\ Alive

\* The hook returns 0.
HookReturn ==
    /\ hidx' = hidx + 1
    /\ hpc' = HookPc(hidx + 1)
    /\ UNCHANGED <<hret, proc, sigchld, iret>>

\* The hook returns -errno: the jail library aborts the process.
HookFail ==
    /\ \E e \in Errnos : hret' = -e
    /\ hpc' = "failed"
    /\ UNCHANGED hidx
    /\ proc' = [proc EXCEPT !.st = "zombie", !.status = SignaledStatus(SIGABRT),
                            !.rep = FALSE]
    /\ IF ipc = "none"
       THEN iret' = SignaledStatus(SIGABRT) /\ UNCHANGED sigchld
       ELSE sigchld' = TRUE /\ UNCHANGED iret

\* minijail_run_no_preload: clone the pre-exec process, or fail.  Then, with
\* meta enabled, if (sigsys_socket_fd): start SigsysPipeThread unless the
\* notification fd is missing.
MainRun ==
    /\ mpc = "run"
    /\ \/ /\ MainReturn(1)
          /\ UNCHANGED <<jailVars, proc, opc>>
       \/ /\ \/ mpc' = "wait" /\ UNCHANGED opc
             \/ cfg.meta /\ mpc' = "join" /\ opc' = "recv"
          /\ hpc' = HookPc(1)
          /\ hidx' = 1
          /\ tfds' = IF cfg.meta THEN {kLoggingFd, kMetaFd, kSigsysNotificationFd}
                     ELSE {kLoggingFd}
          /\ mnt' = ~cfg.disable_sandboxing
          /\ proc' = [NoProc EXCEPT !.st = "alive"]
          /\ UNCHANGED <<mret, hret, opened, did_setsid>>
    /\ UNCHANGED <<cfg, hooks, xhooks, binds, cgroup_path, cgVars, initVars,
                   now, sigchld, notif, eintr, desc, sock_fd, sock_nr, outVars>>

HookRemountRootReadOnly ==
    /\ AtHook("RemountRootReadOnly")
    /\ \/ HookReturn
       \/ HookFail
    /\ UNCHANGED <<cfg, mainVars, tfds, opened, mnt, did_setsid, cgVars, initVars,
                   now, notif, eintr, desc, obsVars, meta>>

HookChdir ==
    /\ AtHook("Chdir")
    /\ \/ HookReturn
       \/ HookFail
    /\ UNCHANGED <<cfg, mainVars, tfds, opened, mnt, did_setsid, cgVars, initVars,
                   now, notif, eintr, desc, obsVars, meta>>

\* SetResourceLimits(void*): prlimit for each configured limit.
HookSetResourceLimits ==
    /\ AtHook("SetResourceLimits")
    /\ \/ HookReturn
       \/ HookFail
    /\ UNCHANGED <<cfg, mainVars, tfds, opened, mnt, did_setsid, cgVars, initVars,
                   now, notif, eintr, desc, obsVars, meta>>

\* A RedirectStdio that returns 0 when umount2 has failed.
HookRedirectStdioDetachIgnored ==
    /\ AtHook("RedirectStdio")
    /\ \/ /\ opened' = cfg.redirects
          /\ mnt' = FALSE
          /\ HookReturn
       \/ \E bad \in cfg.redirects :
            /\ opened' = {s \in cfg.redirects : s < bad}
            /\ UNCHANGED mnt
            /\ HookFail
       \/ /\ ~cfg.disable_sandboxing
          /\ opened' = cfg.redirects
          /\ UNCHANGED mnt
          /\ HookReturn
    /\ UNCHANGED <<cfg, mainVars, tfds, did_setsid, cgVars, initVars,
                   now, notif, eintr, desc, obsVars, meta>>

\* RedirectStdio: OpenStdio for stdin, stdout, stderr in this order, each of
\* which may fail; in a sandboxed run /mnt/stdio is then detached.
HookRedirectStdio ==
    /\ AtHook("RedirectStdio")
    /\ \/ /\ opened' = cfg.redirects
          /\ mnt' = FALSE
          /\ HookReturn
       \/ \E bad \in cfg.redirects :
            /\ opened' = {s \in cfg.redirects : s < bad}
            /\ UNCHANGED mnt
            /\ HookFail
       \/ /\ ~cfg.disable_sandboxing
          /\ opened' = cfg.redirects
          /\ UNCHANGED mnt
          /\ HookFail
    /\ UNCHANGED <<cfg, mainVars, tfds, did_setsid, cgVars, initVars,
                   now, notif, eintr, desc, obsVars, meta>>

\* A PRE_EXECVE hook that returns 0 with fd 3 left open.
HookCloseLoggingFdLeftOpen ==
    /\ hpc = "prexec"
    /\ Alive
    /\ xhooks = <<"CloseLoggingFd">>
    /\ \/ /\ hpc' = "execve"
          /\ UNCHANGED <<tfds, hidx, hret, proc, sigchld, iret>>
       \/ /\ HookFail
          /\ UNCHANGED tfds
    /\ UNCHANGED <<cfg, mainVars, opened, mnt, did_setsid, cgVars, initVars,
                   now, notif, eintr, desc, obsVars, meta>>

\* The PRE_EXECVE hook CloseLoggingFd.
HookCloseLoggingFd ==
    /\ hpc = "prexec"
    /\ Alive
    /\ xhooks = <<"CloseLoggingFd">>
    /\ \/ /\ tfds' = tfds \ {kLoggingFd}
          /\ hpc' = "execve"
          /\ UNCHANGED <<hidx, hret, proc, sigchld, iret>>
       \/ /\ HookFail
          /\ UNCHANGED tfds
    /\ UNCHANGED <<cfg, mainVars, opened, mnt, did_setsid, cgVars, initVars,
                   now, notif, eintr, desc, obsVars, meta>>

\* The jail library loads the target image.
Execve ==
    /\ hpc = "execve"
    /\ Alive
    /\ hpc' = "target"
    /\ UNCHANGED <<cfg, mainVars, hidx, hret, tfds, opened, mnt, did_setsid, cgVars,
                   initVars, envVars, obsVars, outVars>>

(***************************************************************************)
(* MetaInit, up to the fork, in the pre-exec process.                      *)
(***************************************************************************)
\* The pid fork() returns to meta-init outside a pid namespace.
HostChildPid == 7

\* The ScopedCgroup of payload->cgroup_path: unified (v2) or pid (v1).
MetaInitCgroup ==
    /\ AtHook("MetaInit")
    /\ IF ~cgroup_path
       THEN /\ hpc' = "mi_memlimit"
            /\ UNCHANGED <<hidx, hret, proc, sigchld, iret, cg, cgfs>>
       ELSE LET c == IF cfg.cgv2 THEN "unified" ELSE "pid" IN
            \/ /\ cg' = [cg EXCEPT ![c] = "owned"]
               /\ cgfs' = [cgfs EXCEPT !.dir[c] = TRUE]
               /\ hpc' = "mi_memlimit"
               /\ UNCHANGED <<hidx, hret, proc, sigchld, iret>>
            \/ /\ HookFail
               /\ UNCHANGED <<cg, cgfs>>
    /\ UNCHANGED <<cfg, mainVars, tfds, opened, mnt, did_setsid, cgc, initVars,
                   now, notif, eintr, desc, obsVars, meta>>

\* prctl(PR_SET_CHILD_SUBREAPER) when sandboxing is disabled; otherwise the
\* memory limit: written to memory.max of the unified cgroup or to
\* memory.limit_in_bytes of a new v1 memory cgroup, then chmod 0444.
MetaInitMemoryLimit ==
    /\ hpc = "mi_memlimit"
    /\ Alive
    /\ IF cfg.disable_sandboxing
       THEN /\ \/ hpc' = "mi_fork" /\ UNCHANGED <<hidx, hret, proc, sigchld, iret>>
               \/ HookFail
            /\ UNCHANGED <<cg, cgfs>>
       ELSE IF cfg.memory_limit >= 0
       THEN LET made == IF cg["unified"] # "null" THEN cg
                        ELSE [cg EXCEPT !["memory"] = "owned"]
                dirs == IF cg["unified"] # "null" THEN cgfs
                        ELSE [cgfs EXCEPT !.dir["memory"] = TRUE]
            IN
            \/ \* the memory cgroup cannot be created
               /\ cg["unified"] = "null"
               /\ HookFail
               /\ UNCHANGED <<cg, cgfs>>
            \/ \* WriteFile fails
               /\ HookFail
               /\ cg' = made
               /\ cgfs' = dirs
            \/ \* chmod fails
               /\ HookFail
               /\ cg' = made
               /\ cgfs' = [dirs EXCEPT !.limit = "written"]
            \/ /\ cg' = made
               /\ cgfs' = [dirs EXCEPT !.limit = "sealed"]
               /\ hpc' = "mi_fork"
               /\ UNCHANGED <<hidx, hret, proc, sigchld, iret>>
       ELSE /\ hpc' = "mi_fork"
            /\ UNCHANGED <<hidx, hret, proc, sigchld, iret, cg, cgfs>>
    /\ UNCHANGED <<cfg, mainVars, tfds, opened, mnt, did_setsid, cgc, initVars,
                   now, notif, eintr, desc, obsVars, meta>>

\* Block SIGCHLD, read t0, compute the deadline, fork.  In the child MetaInit
\* goes on at setsid; in the parent (meta-init) at the pidfd.
MetaInitFork ==
    /\ hpc = "mi_fork"
    /\ Alive
    /\ \/ \* sigprocmask fails
          /\ HookFail
          /\ UNCHANGED <<cgc, initVars, now>>
       \/ \E c \in 0..(NsecBase - 1) :
            /\ now' = c
            /\ t0' = ClockTimespec(c)
            /\ \E timeout \in Timeouts :
                 deadline' = TimespecAdd(ClockTimespec(c), timeout)
            /\ \/ \* fork fails: _exit(child_pid)
                  /\ hpc' = "failed"
                  /\ proc' = [proc EXCEPT !.st = "gone"]
                  /\ iret' = ExitedStatus(255)
                  /\ child_pid' = -1
                  /\ UNCHANGED <<hidx, hret, sigchld, cgc, ipc, sigsys_socket_fd>>
               \/ /\ child_pid' = IF cfg.disable_sandboxing THEN HostChildPid
                                  ELSE kAdmittedPid
                  /\ ipc' = "pidfd"
                  /\ sigsys_socket_fd' = TRUE
                  /\ cgc' = cg
                  /\ hpc' = "ch_setsid"
                  /\ proc' = [NoProc EXCEPT !.st = "alive"]
                  /\ UNCHANGED <<hidx, hret, sigchld, iret>>
            /\ UNCHANGED <<init_exited, init_exitstatus, init_exitsyscall,
                           init_exitsignal, init_usage, attached, t, at_deadline, failcnt, pid, stop_signal, ptraced>>
    /\ UNCHANGED <<cfg, mainVars, tfds, opened, mnt, did_setsid, cg, cgfs,
                   notif, eintr, desc, obsVars, meta>>

(***************************************************************************)
(* MetaInit in the forked child.                                           *)
(***************************************************************************)
\* setsid() when sandboxing is disabled; prctl(PR_SET_NAME).
ChildSetsid ==
    /\ hpc = "ch_setsid"
    /\ Alive
    /\ IF cfg.disable_sandboxing
       THEN \/ /\ did_setsid' = TRUE
               /\ hpc' = "ch_admit"
               /\ UNCHANGED <<hidx, hret, proc, sigchld, iret>>
            \/ /\ HookFail
               /\ UNCHANGED did_setsid
       ELSE /\ hpc' = "ch_admit"
            /\ UNCHANGED <<hidx, hret, proc, sigchld, iret, did_setsid>>
    /\ UNCHANGED <<cfg, mainVars, tfds, opened, mnt, cgVars, initVars,
                   now, notif, eintr, desc, obsVars, meta>>

\* An admission that leaves out the chmod of the admission file.
AdmitUnsealed(c, nextpc) ==
    \/ /\ HookFail
       /\ UNCHANGED <<cgc, cgfs>>
    \/ /\ cgc' = [cgc EXCEPT ![c] = "released"]
       /\ cgfs' = [cgfs EXCEPT !.adm[c] = kAdmittedPid]
       /\ hpc' = nextpc
       /\ UNCHANGED <<hidx, hret, proc, sigchld, iret>>

\* One cgroup's admission in the child: WriteFile of the literal pid to its
\* cgroup.procs or tasks, release() of the child's handle, chmod 0444.
Admit(c, nextpc) ==
    \/ \* WriteFile fails
       /\ HookFail
       /\ UNCHANGED <<cgc, cgfs>>
    \/ \* chmod fails, after the write and the release
       /\ HookFail
       /\ cgc' = [cgc EXCEPT ![c] = "released"]
       /\ cgfs' = [cgfs EXCEPT !.adm[c] = kAdmittedPid]
    \/ /\ cgc' = [cgc EXCEPT ![c] = "released"]
       /\ cgfs' = [cgfs EXCEPT !.adm[c] = kAdmittedPid, !.seal[c] = TRUE]
       /\ hpc' = nextpc
       /\ UNCHANGED <<hidx, hret, proc, sigchld, iret>>

\* No admission: the handle is null.
AdmitSkip(nextpc) ==
    /\ hpc' = nextpc
    /\ UNCHANGED <<hidx, hret, proc, sigchld, iret, cgc, cgfs>>

\* if (unified_cgroup): cgroup.procs of the unified cgroup.
ChildAdmitUnified ==
    /\ hpc = "ch_admit"
    /\ Alive
    /\ cgc["unified"] # "null"
    /\ Admit("unified", "ch_finish")
    /\ UNCHANGED <<cfg, mainVars, tfds, opened, mnt, did_setsid, cg, initVars,
                   now, notif, eintr, desc, obsVars, meta>>

\* else: the loop over {&memory_cgroup, &pid_cgroup}, first round.
ChildAdmitMemory ==
    /\ hpc = "ch_admit"
    /\ Alive
    /\ cgc["unified"] = "null"
    /\ IF cgc["memory"] = "null" THEN AdmitSkip("ch_admit_pid")
       ELSE Admit("memory", "ch_admit_pid")
    /\ UNCHANGED <<cfg, mainVars, tfds, opened, mnt, did_setsid, cg, initVars,
                   now, notif, eintr, desc, obsVars, meta>>

\* The loop's second round.
ChildAdmitPid ==
    /\ hpc = "ch_admit_pid"
    /\ Alive
    /\ IF cgc["pid"] = "null" THEN AdmitSkip("ch_finish")
       ELSE Admit("pid", "ch_finish")
    /\ UNCHANGED <<cfg, mainVars, tfds, opened, mnt, did_setsid, cg, initVars,
                   now, notif, eintr, desc, obsVars, meta>>

\* Restore the signal mask, close fd 5, close fd 4, SetResourceLimits, return.
ChildFinish ==
    /\ hpc = "ch_finish"
    /\ Alive
    /\ \/ \* sigprocmask fails
          /\ HookFail
          /\ UNCHANGED tfds
       \/ \* close(kSigsysNotificationFd) fails
          /\ HookFail
          /\ UNCHANGED tfds
       \/ \* close(kMetaFd) fails
          /\ HookFail
          /\ tfds' = tfds \ {kSigsysNotificationFd}
       \/ \* prlimit fails
          /\ HookFail
          /\ tfds' = tfds \ {kSigsysNotificationFd, kMetaFd}
       \/ /\ tfds' = tfds \ {kSigsysNotificationFd, kMetaFd}
          /\ HookReturn
    /\ UNCHANGED <<cfg, mainVars, opened, mnt, did_setsid, cgVars, initVars,
                   now, notif, eintr, desc, obsVars, meta>>

(***************************************************************************)
(* The environment: the kernel's view of the forked child (in a run        *)
(* without meta: of the pre-exec process), the target's own behaviour.     *)
(***************************************************************************)
\* The signals whose delivery to the traced child is reported as a stop.
StopSignals == {SIGSTOP, SIGTRAP, SIGSYS, SIGXCPU, SIGXFSZ, SIGUSR1}
\* The signals the child is seen to die from.
DeathSignals == {SIGKILL, SIGRTMIN}
\* Syscall numbers of the seccomp policy's violations.
Syscalls == {0, 5}
\* Those lookup_syscall_name() has a name for.
NamedSyscalls == {5}
\* Exit codes of the target.
ExitCodes == {0, 7}

\* meta-init exists and has not exited.
Supervising == ipc \notin {"none", "done"}

\* The process p enters a ptrace stop for the signal sig; for SIGSYS, nr is the
\* syscall PTRACE_GETSIGINFO will tell.
Stopped(p, sig, nr) ==
    [p EXCEPT !.st = "stopped", !.status = StoppedStatus(sig), !.rep = FALSE,
              !.sig = 0, !.nr = nr]

\* The process ends with the wait status st: a zombie of meta-init, or, with no
\* meta-init, the end of the jail's init process.
Dies(st) ==
    /\ proc' = [proc EXCEPT !.st = "zombie", !.status = st, !.rep = FALSE,
                            !.sig = 0, !.nr = -1]
    /\ IF ipc = "none"
       THEN iret' = st /\ UNCHANGED sigchld
       ELSE sigchld' = TRUE /\ UNCHANGED iret

\* A signal is delivered to the target while it is traced: a ptrace stop,
\* reported by wait3.  (No code of MetaInit makes the child a tracee: it is one
\* from the exec on, or when the target asks for it.)
ProcStop ==
    /\ Supervising
    /\ hpc = "target"
    /\ Alive
    /\ \E sig \in StopSignals :
         \E nr \in (IF sig = SIGSYS THEN Syscalls ELSE {-1}) :
           proc' = Stopped(proc, sig, nr)
    /\ sigchld' = TRUE
    /\ UNCHANGED <<cfg, mainVars, jailVars, cgVars, initVars, now, notif, eintr, desc, obsVars,
                   outVars>>

\* The target is killed by a signal; a stopped one by SIGKILL only.
ProcKilled ==
    /\ ipc # "done"
    /\ hpc = "target"
    /\ \/ /\ Alive
          /\ \E sig \in DeathSignals : Dies(SignaledStatus(sig))
       \/ \* the signal PTRACE_CONT injected terminates it
          /\ Alive
          /\ proc.sig # 0
          /\ Dies(SignaledStatus(proc.sig))
       \/ /\ proc.st = "stopped"
          /\ Dies(SignaledStatus(SIGKILL))
    /\ UNCHANGED <<cfg, mainVars, jailVars, cgVars, initVars, now, notif, eintr, desc, obsVars, meta>>

\* The target exits.
TargetExit ==
    /\ ipc # "done"
    /\ hpc = "target"
    /\ Alive
    /\ \E code \in ExitCodes : Dies(ExitedStatus(code))
    /\ UNCHANGED <<cfg, mainVars, jailVars, cgVars, initVars, now, notif, eintr, desc, obsVars, meta>>

\* The target makes a syscall the policy forbids: a seccomp user notification.
TargetSyscall ==
    /\ cfg.meta
    /\ ipc # "done"
    /\ hpc = "target"
    /\ Alive
    /\ notif = -1
    /\ \E nr \in Syscalls : notif' = nr
    /\ UNCHANGED <<cfg, mainVars, jailVars, cgVars, initVars, now, proc, sigchld,
                   desc, eintr, obsVars, outVars>>

\* The pid of the process the target forks: the one after the child's.
DescendantPid == child_pid + 1

\* The target is dead: its children have meta-init, pid 1 of the namespace or
\* the subreaper, as their parent.
Orphaned == proc.st \in {"zombie", "gone"}

\* The target forks a process.
TargetFork ==
    /\ Supervising
    /\ hpc = "target"
    /\ Alive
    /\ desc.st = "none"
    /\ desc' = [NoProc EXCEPT !.st = "alive"]
    /\ UNCHANGED <<cfg, mainVars, jailVars, cgVars, initVars, now, proc, sigchld,
                   notif, eintr, obsVars, outVars>>

\* The descendant calls setsid(): it leaves the process group of the child,
\* which is what kill(-child_pid) of a run without sandboxing reaches.
DescendantSetsid ==
    /\ Supervising
    /\ cfg.disable_sandboxing
    /\ desc.st = "alive"
    /\ desc.grp
    /\ desc' = [desc EXCEPT !.grp = FALSE]
    /\ UNCHANGED <<cfg, mainVars, jailVars, cgVars, initVars, now, proc, sigchld,
                   notif, eintr, obsVars, outVars>>

\* The descendant exits: reaped by the target while that lives, a zombie of
\* meta-init afterwards.
DescendantExit ==
    /\ Supervising
    /\ desc.st = "alive"
    /\ IF Orphaned
       THEN /\ desc' = [desc EXCEPT !.st = "zombie", !.status = ExitedStatus(0),
                                    !.rep = FALSE, !.sig = 0, !.nr = -1]
            /\ sigchld' = TRUE
       ELSE /\ desc' = [desc EXCEPT !.st = "gone"]
            /\ UNCHANGED sigchld
    /\ UNCHANGED <<cfg, mainVars, jailVars, cgVars, initVars, now, proc,
                   notif, eintr, obsVars, outVars>>

\* An orphaned descendant that has made its parent its tracer
\* (PTRACE_TRACEME) gets a signal: a ptrace stop, reported by wait3.
DescendantStop ==
    /\ Supervising
    /\ desc.st = "alive"
    /\ Orphaned
    /\ \E sig \in StopSignals :
         \E nr \in (IF sig = SIGSYS THEN Syscalls ELSE {-1}) :
           desc' = Stopped(desc, sig, nr)
    /\ sigchld' = TRUE
    /\ UNCHANGED <<cfg, mainVars, jailVars, cgVars, initVars, now, proc,
                   notif, eintr, obsVars, outVars>>

(***************************************************************************)
(* main() after the run call, and the observer thread.                     *)
(***************************************************************************)
\* sigsys_pipe_thread.join().
MainJoin ==
    /\ mpc = "join"
    /\ opc = "done"
    /\ mpc' = "wait"
    /\ UNCHANGED <<cfg, mret, hooks, xhooks, binds, cgroup_path, rtVars>>

\* What minijail_wait returns for the wait status of the jail's init process.
MinijailWait(status) ==
    IF WIFEXITED(status) THEN WEXITSTATUS(status) ELSE 128 + WTERMSIG(status)

\* return minijail_wait(j).
MainWait ==
    /\ mpc = "wait"
    /\ iret # -1
    /\ MainReturn(MinijailWait(iret))
    /\ UNCHANGED <<cfg, hooks, xhooks, binds, cgroup_path, rtVars>>

\* The observer receives the pidfd, or sees the socket shut down.
ObserverReceive ==
    /\ opc = "recv"
    /\ sock_fd \in {"sent", "eof"}
    /\ sock_fd' = IF sock_fd = "sent" THEN "received" ELSE sock_fd
    /\ opc' = "poll"
    /\ UNCHANGED <<cfg, mainVars, jailVars, cgVars, initVars, envVars, sock_nr, outVars>>

\* The observer reads a notification, writes the syscall number to the socket,
\* responds, closes the socket and exits.
ObserverNotify ==
    /\ opc = "poll"
    /\ notif \in Syscalls
    /\ sock_nr' = notif
    /\ notif' = -2
    /\ opc' = "done"
    /\ UNCHANGED <<cfg, mainVars, jailVars, cgVars, initVars, now, proc, sigchld,
                   desc, eintr, sock_fd, outVars>>

\* The notification fd hangs up when the jailed process is gone.
ObserverHangup ==
    /\ opc = "poll"
    /\ proc.st \in {"zombie", "gone"}
    /\ opc' = "done"
    /\ UNCHANGED <<cfg, mainVars, jailVars, cgVars, initVars, envVars, sock_fd,
                   sock_nr, outVars>>

(***************************************************************************)
(* MetaInit in the parent: meta-init.                                      *)
(***************************************************************************)
\* size_t is unsigned and wraps at 2^64, scaled down.
SizeMod == 1048576

\* An event of the process p that wait3 has not reported yet.
ReportableProc(p) == p.st \in {"stopped", "zombie"} /\ ~p.rep

\* Such an event of the child, and of a descendant meta-init is the parent of.
Reportable == ReportableProc(proc)
ReportableDesc == Orphaned /\ ReportableProc(desc)

\* kill(SIGKILL) reaches the process p.
KilledProc(p) ==
    IF p.st \in {"alive", "stopped"}
    THEN [p EXCEPT !.st = "zombie", !.status = SignaledStatus(SIGKILL),
                   !.rep = FALSE, !.sig = 0, !.nr = -1]
    ELSE p

Killed == KilledProc(proc)

\* pidfd_open, SendFD over the sigsys socket, shutdown(SHUT_WR),
\* minijail_enter; the locals of the supervise loop.
ParentSendPidfd ==
    /\ ipc = "pidfd"
    /\ \/ \* pidfd_open fails
          /\ sock_fd' = "eof"
          /\ UNCHANGED sigsys_socket_fd
       \/ \* SendFD fails: sigsys_socket_fd.reset()
          /\ sock_fd' = "eof"
          /\ sigsys_socket_fd' = FALSE
       \/ /\ sock_fd' = "sent"
          /\ UNCHANGED sigsys_socket_fd
    /\ t' = t0
    /\ ipc' = "sigtimedwait"
    /\ UNCHANGED <<cfg, mainVars, jailVars, cgVars, child_pid, at_deadline, failcnt, pid, stop_signal, ptraced, init_exited,
                   init_exitstatus, init_exitsyscall, init_exitsignal, init_usage,
                   attached, t0, deadline, envVars, opc, sock_nr, outVars>>

\* sigtimedwait accepts the timeout.
ValidTimeout(ts) == ts[1] >= 0 /\ ts[2] >= 0 /\ ts[2] < NsecBase

\* clock_gettime(CLOCK_REALTIME, &t): the clock does not run backwards.
ReadClock(from) ==
    \E c \in from..MaxClock :
      /\ now' = c
      /\ t' = ClockTimespec(c)

\* meta-init has children none of which wait3 can report: a blocking wait3
\* sleeps.
Wait3Blocks ==
    /\ ~Reportable
    /\ ~ReportableDesc
    /\ \/ proc.st \in {"alive", "stopped"}
       \/ Orphaned /\ desc.st \in {"alive", "stopped"}

\* A signal is caught in meta-init while it sleeps in sigtimedwait or in the
\* wait3 of the terminal sweep: the call returns -1 with errno EINTR.
SignalCaught ==
    /\ ~eintr
    /\ \/ /\ ipc = "sigtimedwait"
          /\ ~sigchld
          /\ ValidTimeout(TimespecSub(deadline, t))
       \/ /\ ipc = "sweep"
          /\ Wait3Blocks
    /\ eintr' = TRUE
    /\ UNCHANGED <<cfg, mainVars, jailVars, cgVars, initVars, now, proc, sigchld,
                   notif, desc, obsVars, outVars>>

\* HANDLE_EINTR(x): the call x is made again for as long as it returns -1
\* with errno EINTR; its value is the outcome of the last call.
HANDLE_EINTR(interrupted, again, outcome) ==
    IF interrupted THEN again ELSE outcome

\* timeout = deadline - t; HANDLE_EINTR(sigtimedwait(&mask, &info, &timeout)):
\* a pending SIGCHLD is taken, or the call returns -1 (the timeout has run
\* out, or the timeout is no valid timespec) and the loop is left; an
\* interrupted call is made again.
ParentSigtimedwait ==
    /\ ipc = "sigtimedwait"
    /\ LET timeout == TimespecSub(deadline, t) IN
       HANDLE_EINTR(eintr,
         /\ eintr' = FALSE
         /\ UNCHANGED <<ipc, now, t, sigchld>>,
         /\ IF ~ValidTimeout(timeout)
            THEN /\ ReadClock(now)
                 /\ ipc' = "deadline"
                 /\ UNCHANGED sigchld
            ELSE \/ /\ sigchld
                    /\ sigchld' = FALSE
                    /\ ipc' = "wait3"
                    /\ UNCHANGED <<now, t>>
                 \/ /\ ~sigchld
                    /\ LET woken == ClockUnits(t) + ClockUnits(timeout) IN
                       ReadClock(IF woken > now THEN woken ELSE now)
                    /\ ipc' = "deadline"
                    /\ UNCHANGED sigchld
         /\ UNCHANGED eintr)
    /\ UNCHANGED <<cfg, mainVars, jailVars, cgVars, child_pid, at_deadline, failcnt, pid, stop_signal, ptraced, init_exited,
                   init_exitstatus, init_exitsyscall, init_exitsignal, init_usage,
                   attached, t0, deadline, sigsys_socket_fd, proc, notif, desc,
                   obsVars, outVars>>

\* Every stop is followed by its own PTRACE_SETOPTIONS.
WaitStopSetOptionsAlways(p, status) ==
    /\ attached' = TRUE
    /\ ptraced' = [stops |-> IF ptraced.stops < MaxStops THEN ptraced.stops + 1
                             ELSE ptraced.stops,
                   first |-> IF ptraced.stops = 0 THEN p ELSE ptraced.first,
                   setoptions |-> IF Len(ptraced.setoptions) < MaxStops
                                  THEN Append(ptraced.setoptions, p)
                                  ELSE ptraced.setoptions]
    /\ pid' = p
    /\ stop_signal' = WSTOPSIG(status)
    /\ ipc' = "dispatch"

\* if (WIFSTOPPED(status)): wait3 has reported a stop of the process p.
\* if (!attached) { ptrace(PTRACE_SETOPTIONS, pid, ...); attached = true; }
\* whatever the call returns; int stop_signal = WSTOPSIG(status).
WaitStop(p, status) ==
    /\ attached' = TRUE
    /\ ptraced' = [stops |-> IF ptraced.stops < MaxStops THEN ptraced.stops + 1
                             ELSE ptraced.stops,
                   first |-> IF ptraced.stops = 0 THEN p ELSE ptraced.first,
                   setoptions |-> IF ~attached
                                  THEN Append(ptraced.setoptions, p)
                                  ELSE ptraced.setoptions]
    /\ pid' = p
    /\ stop_signal' = WSTOPSIG(status)
    /\ ipc' = "dispatch"

\* One call of while ((pid = wait3(&status, __WALL | WNOHANG, &usage)) > 0):
\* a stop goes to the dispatch, a termination of child_pid is captured, one of
\* another pid is passed over; with nothing to report the drain ends, the
\* clock is read and the loop's condition decides.
ParentWait3 ==
    /\ ipc = "wait3"
    /\ \/ /\ Reportable
          /\ IF WIFSTOPPED(proc.status)
             THEN /\ WaitStop(child_pid, proc.status)
                  /\ proc' = [proc EXCEPT !.rep = TRUE]
                  /\ UNCHANGED <<init_exited, init_exitstatus, init_usage>>
             ELSE \* pid == child_pid
                  /\ init_exitstatus' = proc.status
                  /\ \E rss \in 0..MaxRss : init_usage' = rss
                  /\ init_exited' = TRUE
                  /\ proc' = [proc EXCEPT !.st = "gone", !.rep = TRUE]
                  /\ UNCHANGED <<ipc, attached, pid, stop_signal, ptraced>>
          /\ UNCHANGED <<now, t, desc>>
       \/ /\ ReportableDesc
          /\ IF WIFSTOPPED(desc.status)
             THEN /\ WaitStop(DescendantPid, desc.status)
                  /\ desc' = [desc EXCEPT !.rep = TRUE]
             ELSE /\ desc' = [desc EXCEPT !.st = "gone", !.rep = TRUE]
                  /\ UNCHANGED <<ipc, attached, pid, stop_signal, ptraced>>
          /\ UNCHANGED <<now, t, proc, init_exited, init_exitstatus, init_usage>>
       \/ \* clock_gettime(&t); } while (!init_exited && TimespecCmp(&t,
          \* &deadline) < 0);
          /\ ~Reportable
          /\ ~ReportableDesc
          /\ ReadClock(now)
          /\ ipc' = IF ~init_exited /\ TimespecCmp(t', deadline) < 0
                    THEN "sigtimedwait" ELSE "deadline"
          /\ UNCHANGED <<attached, pid, stop_signal, ptraced, proc, desc, eintr,
                         init_exited, init_exitstatus, init_usage>>
    /\ UNCHANGED <<cfg, mainVars, jailVars, cgVars, child_pid, at_deadline, failcnt,
                   init_exitsyscall, init_exitsignal, t0, deadline,
                   sigsys_socket_fd, sigchld, notif, eintr, obsVars, outVars>>

\* The stop signals after which the process is killed.
DispatchKills(sig) == sig \in {SIGSYS, SIGXCPU, SIGXFSZ}

\* A dispatch that passes every stop signal on to the process.
ContSignalDelivered(sig) == sig

\* The signal PTRACE_CONT injects: none for SIGSTOP and SIGTRAP, the stop
\* signal otherwise.
ContSignal(sig) == IF sig \in {SIGSTOP, SIGTRAP} THEN 0 ELSE sig

\* ptrace(PTRACE_CONT, pid, nullptr, data): a stopped process runs on with the
\* signal injected; on any other the call fails.
Resumed(p, data) ==
    IF p.st = "stopped"
    THEN [p EXCEPT !.st = "alive", !.sig = data, !.nr = -1]
    ELSE p

\* switch (stop_signal): what becomes of the process that stopped.
Dispatched(p, sig) ==
    IF DispatchKills(sig) THEN KilledProc(p) ELSE Resumed(p, ContSignal(sig))

\* info.si_syscall after ptrace(PTRACE_GETSIGINFO, pid, nullptr, &info): the
\* syscall of the stop, or, the call having failed on a process that is no
\* longer stopped, what info held before.
SiSyscall(p) == IF p.st = "stopped" THEN {p.nr} ELSE Syscalls

\* The switch on stop_signal, for the stop of pid that wait3 reported.
ParentDispatch ==
    /\ ipc = "dispatch"
    /\ LET stopped == IF pid = child_pid THEN proc ELSE desc IN
       /\ IF stop_signal = SIGSYS
          THEN \E nr \in SiSyscall(stopped) : init_exitsyscall' = nr
          ELSE UNCHANGED init_exitsyscall
       /\ init_exitsignal' = IF stop_signal \in {SIGXCPU, SIGXFSZ}
                             THEN stop_signal ELSE init_exitsignal
       /\ IF pid = child_pid
          THEN proc' = Dispatched(proc, stop_signal) /\ UNCHANGED desc
          ELSE desc' = Dispatched(desc, stop_signal) /\ UNCHANGED proc
       /\ sigchld' = (sigchld \/ (DispatchKills(stop_signal)
                                  /\ stopped.st \in {"alive", "stopped"}))
    /\ pid' = 0
    /\ stop_signal' = -1
    /\ ipc' = "wait3"
    /\ UNCHANGED <<cfg, mainVars, jailVars, cgVars, child_pid, at_deadline, failcnt,
                   ptraced, init_exited, init_exitstatus, init_usage, attached,
                   t0, t, deadline, sigsys_socket_fd, now, notif, eintr, obsVars, outVars>>

\* A deadline check that records nothing.
DeadlineSignalUnrecorded == init_exitsignal

\* if (TimespecCmp(&t, &deadline) >= 0) init_exitsignal = SIGXCPU;
DeadlineSignal ==
    IF TimespecCmp(t, deadline) >= 0 THEN SIGXCPU ELSE init_exitsignal

\* kill(disable_sandboxing ? -child_pid : -1, SIGKILL): every process of the
\* pid namespace, or the process group the child leads once it has called
\* setsid.
SweepKill ==
    IF ~cfg.disable_sandboxing \/ did_setsid THEN Killed ELSE proc

\* A sweep that signals the process group of the child in every run.
SweepKillDescGroupOnly ==
    IF did_setsid /\ desc.grp THEN KilledProc(desc) ELSE desc

\* The same kill, for the descendant: it is in that process group unless it
\* has left it.
SweepKillDesc ==
    IF ~cfg.disable_sandboxing \/ (did_setsid /\ desc.grp) THEN KilledProc(desc)
    ELSE desc

ParentDeadlineKill ==
    /\ ipc = "deadline"
    /\ init_exitsignal' = DeadlineSignal
    /\ at_deadline' = IF TimespecCmp(t, deadline) >= 0
                      THEN [hit |-> TRUE, exited |-> init_exited,
                            signal |-> init_exitsignal,
                            syscall |-> init_exitsyscall]
                      ELSE at_deadline
    /\ proc' = SweepKill
    /\ desc' = SweepKillDesc
    /\ sigchld' = (sigchld \/ proc' # proc \/ desc' # desc)
    /\ ipc' = "sweep"
    /\ UNCHANGED <<cfg, mainVars, jailVars, cgVars, child_pid, failcnt, pid,
                   stop_signal, ptraced, init_exited, init_exitstatus,
                   init_exitsyscall, init_usage, attached, t0, t, deadline,
                   sigsys_socket_fd, now, notif, eintr, obsVars, outVars>>

\* One round of while ((pid = wait3(&status, 0, &usage)) > 0) that reports a
\* child: the call blocks until a child has something to report.  Only the
\* first report of child_pid is captured.
ParentSweep ==
    /\ ipc = "sweep"
    /\ ~eintr
    /\ \/ /\ Reportable
          /\ proc' = IF proc.st = "zombie"
                     THEN [proc EXCEPT !.st = "gone", !.rep = TRUE]
                     ELSE [proc EXCEPT !.rep = TRUE]
          /\ IF init_exited
             THEN UNCHANGED <<init_exitstatus, init_usage, init_exited>>
             ELSE /\ init_exitstatus' = proc.status
                  /\ \E rss \in 0..MaxRss : init_usage' = rss
                  /\ init_exited' = TRUE
          /\ UNCHANGED desc
       \/ /\ ReportableDesc
          /\ desc' = IF desc.st = "zombie"
                     THEN [desc EXCEPT !.st = "gone", !.rep = TRUE]
                     ELSE [desc EXCEPT !.rep = TRUE]
          /\ UNCHANGED <<proc, init_exitstatus, init_usage, init_exited>>
    /\ UNCHANGED ipc
    /\ UNCHANGED <<cfg, mainVars, jailVars, cgVars, child_pid, at_deadline, failcnt,
                   pid, stop_signal, ptraced, init_exitsyscall, init_exitsignal,
                   attached, t0, t, deadline, sigsys_socket_fd, now, sigchld,
                   notif, eintr, obsVars, outVars>>

\* wait3 returns -1, no child being left or the call having been interrupted
\* (the call of the sweep is made once, outside HANDLE_EINTR): the sweep ends.
\* Then
\* if (sigsys_socket_fd) { exitsyscall = ReceiveExitSyscall(...); if
\* (exitsyscall.has_value()) init_exitsyscall = exitsyscall.value(); }
\* ReceiveExitSyscall yields the integer on the socket, or nothing (epoll or
\* recv fails, times out, reads end-of-file or a short read).
ObserverValue(received) ==
    IF received # -1 THEN received ELSE init_exitsyscall

ParentDrain ==
    /\ ipc = "sweep"
    /\ \/ \* ECHILD
          /\ proc.st = "gone"
          /\ desc.st \in {"none", "gone"}
       \/ \* EINTR
          eintr
    /\ eintr' = FALSE
    /\ IF sigsys_socket_fd
       THEN \/ init_exitsyscall' = ObserverValue(sock_nr)
            \/ UNCHANGED init_exitsyscall
       ELSE UNCHANGED init_exitsyscall
    /\ sigsys_socket_fd' = FALSE
    /\ ipc' = "report"
    /\ UNCHANGED <<cfg, mainVars, jailVars, cgVars, child_pid, at_deadline, failcnt, pid, stop_signal, ptraced, init_exited,
                   init_exitstatus, init_exitsignal, init_usage, attached, t0, t,
                   deadline, now, proc, sigchld, notif, desc, obsVars, outVars>>

\* ~ScopedCgroup by way of unique_ptr::reset(): rmdir unless released.
Reset(handles, c) == [handles EXCEPT ![c] = "null"]
Rmdir(files, handles, c) ==
    IF handles[c] = "owned" THEN [files EXCEPT !.dir[c] = FALSE] ELSE files

\* The subtraction without the comparison that guards it.
MaxRssBytesUnguarded(ru_maxrss, vm_memory_size_in_bytes) ==
    (((ru_maxrss * 1024) % SizeMod) - vm_memory_size_in_bytes) % SizeMod

\* size_t max_rss = ru_maxrss * 1024, less the VM overhead, not below 0.
MaxRssBytes(ru_maxrss, vm_memory_size_in_bytes) ==
    LET max_rss == (ru_maxrss * 1024) % SizeMod IN
    IF max_rss >= vm_memory_size_in_bytes
    THEN (max_rss - vm_memory_size_in_bytes) % SizeMod
    ELSE 0

\* fprintf's %ld of a size_t.
FormatLd(v) == IF v >= SizeMod \div 2 THEN v - SizeMod ELSE v

\* A verdict without the else between its branches: a signal line does not
\* keep the status line from being written.
VerdictFallThrough(exitsyscall, exitsignal, exitstatus) ==
    LET sig == IF exitsignal = -1 THEN WTERMSIG(exitstatus) ELSE exitsignal IN
    [ lines |-> (IF WIFSIGNALED(exitstatus) \/ exitsignal # -1
                 THEN << <<"signal", sig>> >> ELSE <<>>)
                \o (IF WIFEXITED(exitstatus) \/ exitsignal # -1
                    THEN << <<"status", WEXITSTATUS(exitstatus)>> >> ELSE <<>>),
      ret   |-> sig ]

\* A verdict that looks at the signal before the syscall.
VerdictSignalFirst(exitsyscall, exitsignal, exitstatus) ==
    IF WIFSIGNALED(exitstatus) \/ exitsignal # -1
    THEN LET sig == IF exitsignal = -1 THEN WTERMSIG(exitstatus) ELSE exitsignal IN
         [ lines |-> << <<"signal", sig>> >>, ret |-> sig ]
    ELSE IF exitsyscall # -1
    THEN [ lines |-> << <<"signal", SIGSYS>>, <<"syscall", <<"#", exitsyscall>> >> >>,
           ret   |-> SIGSYS ]
    ELSE [ lines |-> << <<"status", WEXITSTATUS(exitstatus)>> >>,
           ret   |-> WEXITSTATUS(exitstatus) ]

\* A verdict whose ret is 0 for every normal exit of the target.
VerdictExitZero(exitsyscall, exitsignal, exitstatus) ==
    IF exitsyscall # -1
    THEN [ lines |-> << <<"signal", SIGSYS>>,
                        <<"syscall", IF exitsyscall \in NamedSyscalls
                                     THEN <<"name", exitsyscall>>
                                     ELSE <<"#", exitsyscall>> >> >>,
           ret   |-> SIGSYS ]
    ELSE IF WIFSIGNALED(exitstatus) \/ exitsignal # -1
    THEN LET sig == IF exitsignal = -1 THEN WTERMSIG(exitstatus) ELSE exitsignal IN
         [ lines |-> IF sig \in kSignalMap
                     THEN << <<"signal", sig>> >>
                     ELSE << <<"signal_number", sig>> >>,
           ret   |-> sig ]
    ELSE IF WIFEXITED(exitstatus)
    THEN [ lines |-> << <<"status", WEXITSTATUS(exitstatus)>> >>,
           ret   |-> 0 ]
    ELSE [ lines |-> <<>>, ret |-> 0 ]

\* The verdict block and the value of ret.
Verdict(exitsyscall, exitsignal, exitstatus) ==
    IF exitsyscall # -1
    THEN [ lines |-> << <<"signal", SIGSYS>>,
                        <<"syscall", IF exitsyscall \in NamedSyscalls
                                     THEN <<"name", exitsyscall>>
                                     ELSE <<"#", exitsyscall>> >> >>,
           ret   |-> SIGSYS ]
    ELSE IF WIFSIGNALED(exitstatus) \/ exitsignal # -1
    THEN LET sig == IF exitsignal = -1 THEN WTERMSIG(exitstatus) ELSE exitsignal IN
         [ lines |-> IF sig \in kSignalMap
                     THEN << <<"signal", sig>> >>
                     ELSE << <<"signal_number", sig>> >>,
           ret   |-> sig ]
    ELSE IF WIFEXITED(exitstatus)
    THEN [ lines |-> << <<"status", WEXITSTATUS(exitstatus)>> >>,
           ret   |-> WEXITSTATUS(exitstatus) ]
    ELSE [ lines |-> <<>>, ret |-> 0 ]

\* memory.failcnt of the v1 memory cgroup: a positive count replaces ru_maxrss
\* by payload->memory_limit_in_bytes.
FailcntUsage(ru_maxrss, failcnt_positive) ==
    IF failcnt_positive THEN cfg.memory_limit ELSE ru_maxrss

\* if (memory_cgroup) { failcnt }; memory_cgroup.reset(); pid_cgroup.reset();
\* the four keys, the verdict block, _exit(ret).
ParentReport ==
    /\ ipc = "report"
    /\ \E count \in (IF cg["memory"] # "null" THEN {0, 1} ELSE {0}) :
         failcnt' = count
    /\ init_usage' = FailcntUsage(init_usage, failcnt' > 0)
    /\ cgfs' = Rmdir(Rmdir(cgfs, cg, "memory"), cg, "pid")
    /\ cg' = Reset(Reset(cg, "memory"), "pid")
    /\ \E vm_memory_size_in_bytes \in VmSizes :
         LET v == Verdict(init_exitsyscall, init_exitsignal, init_exitstatus) IN
         /\ meta' = << <<"time", "ru_utime">>, <<"time-sys", "ru_stime">>,
                       <<"time-wall", "t1">>,
                       <<"mem", FormatLd(MaxRssBytes(init_usage',
                                                     vm_memory_size_in_bytes)),
                         vm_memory_size_in_bytes>> >> \o v.lines
         /\ iret' = ExitedStatus(v.ret % 256)
    /\ ipc' = "done"
    /\ UNCHANGED <<cfg, mainVars, jailVars, cgc, child_pid, at_deadline, pid,
                   stop_signal, ptraced, init_exited,
                   init_exitstatus, init_exitsyscall, init_exitsignal,
                   attached, t0, t, deadline, sigsys_socket_fd, envVars, obsVars>>

(***************************************************************************)
(* The launch: main() up to the run call, the hooks and MetaInit's child   *)
(* up to the target's execve, for every configuration.                     *)
(***************************************************************************)
NextLaunch ==
    \/ MainAffinity
    \/ MainLoggingFd
    \/ MainParse
    \/ MainSandboxSetup
    \/ MainUnsandboxedSetup
    \/ MainChdirHook
    \/ MainCgroupPath
    \/ MainMetaSetup
    \/ MainRlimitHook
    \/ MainRedirectHook
    \/ MainCloseLoggingHook
    \/ MainRun
    \/ HookRemountRootReadOnly
    \/ HookChdir
    \/ HookSetResourceLimits
    \/ HookRedirectStdio
    \/ HookCloseLoggingFd
    \/ Execve
    \/ MetaInitCgroup
    \/ MetaInitMemoryLimit
    \/ MetaInitFork
    \/ ChildSetsid
    \/ ChildAdmitUnified
    \/ ChildAdmitMemory
    \/ ChildAdmitPid
    \/ ChildFinish

SpecLaunch == Init /\ [][NextLaunch]_vars

(***************************************************************************)
(* The supervision: a run with a meta file, a memory limit, no chdir and   *)
(* no redirection, from main() to its return, with meta-init, the target   *)
(* and the observer thread running concurrently.                           *)
(***************************************************************************)
InitSupervise ==
    /\ Init
    /\ cfg.meta
    /\ ~cfg.chdir
    /\ cfg.redirects = {}
    /\ cfg.memory_limit >= 0

NextSupervise ==
    \/ MainAffinity
    \/ MainLoggingFd
    \/ MainParse
    \/ MainSandboxSetup
    \/ MainUnsandboxedSetup
    \/ MainChdirHook
    \/ MainCgroupPath
    \/ MainMetaSetup
    \/ MainRedirectHook
    \/ MainCloseLoggingHook
    \/ MainRun
    \/ HookRemountRootReadOnly
    \/ HookCloseLoggingFd
    \/ Execve
    \/ MetaInitCgroup
    \/ MetaInitMemoryLimit
    \/ MetaInitFork
    \/ ChildSetsid
    \/ ChildAdmitUnified
    \/ ChildAdmitMemory
    \/ ChildAdmitPid
    \/ ChildFinish
    \/ ProcStop
    \/ ProcKilled
    \/ TargetExit
    \/ TargetSyscall
    \/ MainJoin
    \/ MainWait
    \/ ObserverReceive
    \/ ObserverNotify
    \/ ObserverHangup
    \/ ParentSendPidfd
    \/ ParentSigtimedwait
    \/ ParentWait3
    \/ ParentDispatch
    \/ ParentDeadlineKill
    \/ ParentSweep
    \/ ParentDrain
    \/ ParentReport

SpecSupervise == InitSupervise /\ [][NextSupervise]_vars

(***************************************************************************)
(* The tracing: a sandboxed run on a cgroup v1 host whose target forks a   *)
(* process; the child and, once it is orphaned, the descendant stop on     *)
(* signals and are dispatched by the supervise loop.  The target makes no  *)
(* syscall that is answered by a user notification.                        *)
(***************************************************************************)
InitTrace ==
    /\ InitSupervise
    /\ ~cfg.disable_sandboxing
    /\ ~cfg.cgv2

NextTrace ==
    \/ MainAffinity
    \/ MainLoggingFd
    \/ MainParse
    \/ MainSandboxSetup
    \/ MainChdirHook
    \/ MainCgroupPath
    \/ MainMetaSetup
    \/ MainRedirectHook
    \/ MainCloseLoggingHook
    \/ MainRun
    \/ HookRemountRootReadOnly
    \/ HookCloseLoggingFd
    \/ Execve
    \/ MetaInitCgroup
    \/ MetaInitMemoryLimit
    \/ MetaInitFork
    \/ ChildSetsid
    \/ ChildAdmitMemory
    \/ ChildAdmitPid
    \/ ChildFinish
    \/ ProcStop
    \/ ProcKilled
    \/ TargetExit
    \/ TargetFork
    \/ DescendantExit
    \/ DescendantStop
    \/ MainJoin
    \/ MainWait
    \/ ObserverReceive
    \/ ObserverHangup
    \/ ParentSendPidfd
    \/ ParentSigtimedwait
    \/ ParentWait3
    \/ ParentDispatch
    \/ ParentDeadlineKill
    \/ ParentSweep
    \/ ParentDrain
    \/ ParentReport

SpecTrace == InitTrace /\ [][NextTrace]_vars

(***************************************************************************)
(* The sweep: a run with a meta file whose target forks a process that may *)
(* leave the process group; no process is traced.  meta-init and the      *)
(* forked child are scheduled fairly: a step of theirs that stays possible *)
(* is eventually taken.  Nothing is assumed of the target and of its       *)
(* descendant.                                                             *)
(***************************************************************************)
NextEscape ==
    \/ MainAffinity
    \/ MainLoggingFd
    \/ MainParse
    \/ MainSandboxSetup
    \/ MainUnsandboxedSetup
    \/ MainChdirHook
    \/ MainCgroupPath
    \/ MainMetaSetup
    \/ MainRedirectHook
    \/ MainCloseLoggingHook
    \/ MainRun
    \/ HookRemountRootReadOnly
    \/ HookCloseLoggingFd
    \/ Execve
    \/ MetaInitCgroup
    \/ MetaInitMemoryLimit
    \/ MetaInitFork
    \/ ChildSetsid
    \/ ChildAdmitUnified
    \/ ChildAdmitMemory
    \/ ChildAdmitPid
    \/ ChildFinish
    \/ ProcKilled
    \/ TargetExit
    \/ TargetFork
    \/ DescendantSetsid
    \/ DescendantExit
    \/ MainJoin
    \/ MainWait
    \/ ObserverReceive
    \/ ObserverHangup
    \/ ParentSendPidfd
    \/ ParentSigtimedwait
    \/ ParentWait3
    \/ ParentDeadlineKill
    \/ ParentSweep
    \/ ParentDrain
    \/ ParentReport

FairMetaInit ==
    /\ WF_vars(ParentSendPidfd)
    /\ WF_vars(ParentSigtimedwait)
    /\ WF_vars(ParentWait3)
    /\ WF_vars(ParentDeadlineKill)
    /\ WF_vars(ParentSweep)
    /\ WF_vars(ParentDrain)
    /\ WF_vars(ParentReport)

\* The forked child is scheduled fairly as well, up to the target's execve.
FairChild ==
    /\ WF_vars(ChildSetsid)
    /\ WF_vars(ChildAdmitUnified)
    /\ WF_vars(ChildAdmitMemory)
    /\ WF_vars(ChildAdmitPid)
    /\ WF_vars(ChildFinish)
    /\ WF_vars(HookCloseLoggingFd)
    /\ WF_vars(Execve)

SpecEscape == InitSupervise /\ [][NextEscape]_vars /\ FairMetaInit /\ FairChild

(***************************************************************************)
(* The interrupted waits: the runs of the sweep, in which a signal may be   *)
(* caught in meta-init while it sleeps in a waiting call.                  *)
(***************************************************************************)
NextInterrupt ==
    \/ MainAffinity
    \/ MainLoggingFd
    \/ MainParse
    \/ MainSandboxSetup
    \/ MainUnsandboxedSetup
    \/ MainChdirHook
    \/ MainCgroupPath
    \/ MainMetaSetup
    \/ MainRedirectHook
    \/ MainCloseLoggingHook
    \/ MainRun
    \/ HookRemountRootReadOnly
    \/ HookCloseLoggingFd
    \/ Execve
    \/ MetaInitCgroup
    \/ MetaInitMemoryLimit
    \/ MetaInitFork
    \/ ChildSetsid
    \/ ChildAdmitUnified
    \/ ChildAdmitMemory
    \/ ChildAdmitPid
    \/ ChildFinish
    \/ ProcKilled
    \/ TargetExit
    \/ TargetFork
    \/ DescendantSetsid
    \/ DescendantExit
    \/ MainJoin
    \/ MainWait
    \/ ObserverReceive
    \/ ObserverHangup
    \/ ParentSendPidfd
    \/ ParentSigtimedwait
    \/ ParentWait3
    \/ ParentDeadlineKill
    \/ ParentSweep
    \/ ParentDrain
    \/ ParentReport
    \/ SignalCaught

SpecInterrupt == InitSupervise /\ [][NextInterrupt]_vars

(***************************************************************************)
(* Every configuration, every action.                                      *)
(***************************************************************************)
Next ==
    \/ MainAffinity
    \/ MainLoggingFd
    \/ MainParse
    \/ MainSandboxSetup
    \/ MainUnsandboxedSetup
    \/ MainChdirHook
    \/ MainCgroupPath
    \/ MainMetaSetup
    \/ MainRlimitHook
    \/ MainRedirectHook
    \/ MainCloseLoggingHook
    \/ MainRun
    \/ HookRemountRootReadOnly
    \/ HookChdir
    \/ HookSetResourceLimits
    \/ HookRedirectStdio
    \/ HookCloseLoggingFd
    \/ Execve
    \/ MetaInitCgroup
    \/ MetaInitMemoryLimit
    \/ MetaInitFork
    \/ ChildSetsid
    \/ ChildAdmitUnified
    \/ ChildAdmitMemory
    \/ ChildAdmitPid
    \/ ChildFinish
    \/ ProcStop
    \/ ProcKilled
    \/ TargetExit
    \/ TargetSyscall
    \/ TargetFork
    \/ DescendantSetsid
    \/ DescendantExit
    \/ DescendantStop
    \/ MainJoin
    \/ MainWait
    \/ ObserverReceive
    \/ ObserverNotify
    \/ ObserverHangup
    \/ ParentSendPidfd
    \/ ParentSigtimedwait
    \/ ParentWait3
    \/ ParentDispatch
    \/ ParentDeadlineKill
    \/ ParentSweep
    \/ ParentDrain
    \/ ParentReport
    \/ SignalCaught

Spec == Init /\ [][Next]_vars

(***************************************************************************)
(* The order of the PRE_DROP_CAPS hooks.                                   *)
(***************************************************************************)
\* main() has registered every hook and not returned.
HooksRegistered == mpc \in {"closelog", "run", "join", "wait"}

Optional(present, name) == IF present THEN <<name>> ELSE <<>>

LimitsHook == IF cfg.meta THEN "MetaInit" ELSE "SetResourceLimits"

\* Remount, the optional chdir, meta-init entry or set_rlimits, redirect-stdio.
RemountFirstOrder ==
    <<"RemountRootReadOnly">> \o Optional(cfg.chdir, "Chdir") \o <<LimitsHook>>
        \o Optional(cfg.redirects # {}, "RedirectStdio")

\* Meta-init entry or set_rlimits, remount, the optional chdir, redirect-stdio.
LimitsFirstOrder ==
    <<LimitsHook, "RemountRootReadOnly">> \o Optional(cfg.chdir, "Chdir")
        \o Optional(cfg.redirects # {}, "RedirectStdio")

\* C1, as the code has it: in a sandboxed run the PRE_DROP_CAPS hooks are
\* registered in the order remount-root-read-only, the optional chdir, meta-init
\* entry (meta configured) or set_rlimits (not configured), the optional
\* redirect-stdio, for every combination of meta, chdir and redirection.
C1_RemountFirst ==
    (~cfg.disable_sandboxing /\ HooksRegistered) => hooks = RemountFirstOrder

\* C1 as stated: meta-init entry or set_rlimits comes first, then
\* remount-root-read-only, the optional chdir and redirect-stdio.
C1_LimitsFirst ==
    (~cfg.disable_sandboxing /\ HooksRegistered) => hooks = LimitsFirstOrder

\* A sandboxed run with meta, chdir and a redirection has registered its four
\* hooks.
C1_Witness ==
    /\ ~cfg.disable_sandboxing
    /\ HooksRegistered
    /\ cfg.meta /\ cfg.chdir /\ cfg.redirects # {}
    /\ Len(hooks) = 4

\* C2: whenever RedirectStdio is registered it is the last PRE_DROP_CAPS hook,
\* at every moment of every configuration: nothing is registered after it.
C2_RedirectLast ==
    (\E i \in 1..Len(hooks) : hooks[i] = "RedirectStdio")
        => hooks[Len(hooks)] = "RedirectStdio"

\* Every hook is registered, RedirectStdio among them, after two others, and
\* the jail is about to run.
C2_Witness ==
    /\ mpc = "run"
    /\ xhooks = <<"CloseLoggingFd">>
    /\ Len(hooks) >= 3
    /\ hooks[Len(hooks)] = "RedirectStdio"

(***************************************************************************)
(* The cgroup files at the target's execve.                                *)
(***************************************************************************)
ConfiguredCgroup == cgroup_path \/ cfg.memory_limit >= 0

TargetStarted == hpc = "target"

\* Every cgroup directory has the pid in its admission file, chmod 0444.
AdmittedAndSealed(admitted) ==
    \A c \in CgNames : cgfs.dir[c] => (cgfs.adm[c] = admitted /\ cgfs.seal[c])

C4_PidfdBeforeExecve == TargetStarted => sock_fd = "received"

(***************************************************************************)
(* The meta record.                                                        *)
(***************************************************************************)
Emitted == ipc = "done"

FourKeys ==
    /\ Len(meta) >= 4
    /\ meta[1][1] = "time"
    /\ meta[2][1] = "time-sys"
    /\ meta[3][1] = "time-wall"
    /\ meta[4][1] = "mem"

\* What follows the four keys.
VerdictBlock == SubSeq(meta, 5, Len(meta))

IsSyscallVerdict(b) ==
    /\ Len(b) = 2
    /\ b[1] = <<"signal", SIGSYS>>
    /\ b[2][1] = "syscall"

IsSignalVerdict(b) ==
    /\ Len(b) = 1
    /\ b[1][1] \in {"signal", "signal_number"}

IsStatusVerdict(b) ==
    /\ Len(b) = 1
    /\ b[1][1] = "status"

\* C5: whenever meta-init has emitted the meta record, the record is the four
\* keys time, time-sys, time-wall, mem in this order followed by exactly one
\* verdict block: SIGSYS with its syscall line, a signal, or a status.
C5_OneVerdict ==
    Emitted =>
        /\ FourKeys
        /\ \/ IsSyscallVerdict(VerdictBlock)
           \/ IsSignalVerdict(VerdictBlock)
           \/ IsStatusVerdict(VerdictBlock)

\* C6: verdict dominance at emission.  A set exit_syscall gives signal:SIGSYS
\* and the syscall line, nothing else; otherwise a set exit_signal, or a child
\* terminated by a signal, gives that signal and no status line; a status line
\* is written only when neither is set and the child exited normally.
C6_Dominance ==
    Emitted =>
        /\ init_exitsyscall # -1 =>
              /\ IsSyscallVerdict(VerdictBlock)
              /\ VerdictBlock[2][2][2] = init_exitsyscall
        /\ (init_exitsyscall = -1
              /\ (init_exitsignal # -1 \/ WIFSIGNALED(init_exitstatus))) =>
              /\ IsSignalVerdict(VerdictBlock)
              /\ VerdictBlock[1][2] = IF init_exitsignal # -1 THEN init_exitsignal
                                      ELSE WTERMSIG(init_exitstatus)
        /\ (\E i \in 1..Len(VerdictBlock) : VerdictBlock[i][1] = "status") =>
              /\ init_exitsyscall = -1
              /\ init_exitsignal = -1
              /\ WIFEXITED(init_exitstatus)
              /\ VerdictBlock = << <<"status", WEXITSTATUS(init_exitstatus)>> >>

\* A record is emitted with exit_syscall set although a signal was recorded and
\* the child was killed.
C6_Witness ==
    /\ Emitted
    /\ init_exitsyscall # -1
    /\ init_exitsignal # -1
    /\ WIFSIGNALED(init_exitstatus)
    /\ IsSyscallVerdict(VerdictBlock)

\* A record is emitted whose status was captured in the terminal sweep, after
\* the deadline.
C5_Witness ==
    /\ Emitted
    /\ at_deadline.hit
    /\ ~at_deadline.exited
    /\ FourKeys
    /\ IsSignalVerdict(VerdictBlock)
    /\ Len(meta) = 5

(***************************************************************************)
(* The deadline.                                                           *)
(***************************************************************************)
\* C7: when a SIGXCPU or SIGXFSZ stop has recorded exit_signal inside the loop
\* and the loop then ends with the clock at or past the deadline, exit_signal
\* stays the signal of the stop.
C7_PtraceSignalKept ==
    (at_deadline.hit /\ at_deadline.signal # -1)
        => init_exitsignal = at_deadline.signal

\* The loop has ended by the deadline with the child not terminated and no
\* signal and no syscall recorded, and the record is emitted.
DeadlineUnrecorded ==
    /\ Emitted
    /\ at_deadline.hit
    /\ ~at_deadline.exited
    /\ at_deadline.signal = -1
    /\ at_deadline.syscall = -1

\* C8 as stated: when the loop ends by the deadline with the child not
\* terminated and no signal or syscall recorded before, the emitted verdict is
\* signal:SIGXCPU.
C8_DeadlineVerdict ==
    DeadlineUnrecorded => VerdictBlock = << <<"signal", SIGXCPU>> >>

\* C8, as the code has it: the same, unless the observer drain after the sweep
\* delivers a syscall number; the verdict is then signal:SIGSYS with that
\* syscall.
C8_DeadlineVerdictUnlessDrained ==
    DeadlineUnrecorded =>
        IF init_exitsyscall = -1
        THEN VerdictBlock = << <<"signal", SIGXCPU>> >>
        ELSE /\ IsSyscallVerdict(VerdictBlock)
             /\ VerdictBlock[2][2][2] = init_exitsyscall

\* The deadline was reached with nothing recorded, nothing was drained, and the
\* record is emitted.
C8_Witness ==
    /\ DeadlineUnrecorded
    /\ init_exitsyscall = -1
    /\ WIFSIGNALED(init_exitstatus)

(***************************************************************************)
(* The observer drain.                                                     *)
(***************************************************************************)
\* C9: the drain leaves a syscall number that the SIGSYS stop has recorded as
\* it is: the observer's number is assigned only to an unset exit_syscall.
C9_DrainKeepsPtraceValue ==
    [][(ipc = "sweep" /\ ipc' = "report" /\ init_exitsyscall # -1)
          => init_exitsyscall' = init_exitsyscall]_vars

(***************************************************************************)
(* The mem value.                                                          *)
(***************************************************************************)
Max0(v) == IF v > 0 THEN v ELSE 0

\* C10: the emitted mem value is not negative and is
\* max(0, ru_maxrss * 1024 - vm_memory_size) for the ru_maxrss of the record's
\* usage and every vm_memory_size.
C10_Mem ==
    Emitted =>
        /\ meta[4][2] >= 0
        /\ meta[4][2] = Max0(init_usage * 1024 - meta[4][3])

\* A record is emitted whose usage is smaller than the VM overhead.
C10_Witness ==
    /\ Emitted
    /\ init_usage > 0
    /\ init_usage * 1024 < meta[4][3]
    /\ meta[4][2] = 0

(***************************************************************************)
(* The failcnt reconciliation.                                             *)
(***************************************************************************)
\* C11: when the v1 memory cgroup's memory.failcnt is read as positive, the
\* emitted mem is max(0, memory_limit_in_bytes - vm_memory_size): ru_maxrss
\* has become the limit in KiB; when failcnt is 0 or unreadable, or there is
\* no v1 memory cgroup, ru_maxrss is left as it was captured.
C11_FailcntClampsToLimit ==
    [][(ipc = "report" /\ ipc' = "done") =>
          IF cg["memory"] # "null" /\ failcnt' > 0
          THEN meta'[4][2] = Max0(cfg.memory_limit - meta'[4][3])
          ELSE init_usage' = init_usage]_vars

(***************************************************************************)
(* The cgroup handles.                                                     *)
(***************************************************************************)
\* C12: when meta-init exits, none of the cgroup handles it created (unified,
\* memory, pid) is left owned in the meta-init process: each has been
\* destroyed in the epilogue or released there.  A release() in the forked
\* child acts on the child's copy (cgc), not on meta-init's (cg).
C12_NoOwnedHandleAtExit ==
    Emitted => \A c \in CgNames : cg[c] # "owned"

\* C13: a handle is released only after both the admission write and the
\* chmod 0444 of the admission file have succeeded: a released handle (in the
\* child, where release() is called) has its pid written and its file sealed.
C13_ReleaseAfterSeal ==
    \A c \in CgNames :
        cgc[c] = "released" => (cgfs.adm[c] = kAdmittedPid /\ cgfs.seal[c])

(***************************************************************************)
(* The stdio redirection of a sandboxed run.                               *)
(***************************************************************************)
\* The bind mounts of host stdio paths in the mount namespace of the target.
VisibleBinds == IF mnt THEN binds ELSE {}

\* C14: in a sandboxed run whose target has started, no bind mount of a host
\* stdio path is visible: with a redirection installed under /mnt/stdio, every
\* requested stream is open on its fd 0/1/2 and /mnt/stdio is detached; a
\* failed open, dup or detach has kept the target from starting.
C14_NoStdioMountAtExec ==
    (~cfg.disable_sandboxing /\ TargetStarted) =>
        /\ VisibleBinds = {}
        /\ binds # {} => (opened = cfg.redirects /\ ~mnt)

\* A sandboxed target runs with all three streams redirected.
C14_Witness ==
    /\ ~cfg.disable_sandboxing
    /\ TargetStarted
    /\ binds = Streams
    /\ opened = Streams
    /\ ~mnt

(***************************************************************************)
(* Progress of meta-init.                                                  *)
(***************************************************************************)
\* C15: once fork has succeeded, meta-init eventually writes the meta record
\* and exits, in sandboxed runs and in runs without sandboxing, whatever the
\* target and its descendant do.
C15_MetaInitEmits == (ipc = "pidfd") ~> (ipc = "done")

(***************************************************************************)
(* Failures.                                                               *)
(***************************************************************************)
\* main() has returned without a pre-exec process having been created: a
\* setup step or the run call has failed.
SetupFailed == mpc = "done" /\ hpc = "none"

\* C16: every setup failure main() detects before the jail is launched ends
\* the supervisor with exit status 1, the target never having been started.
C16_SetupFailureExitsOne == SetupFailed => mret = 1

\* C17: a step that fails inside a hook of the pre-exec process (MetaInit's
\* fork and the forked child's steps included) makes the hook return the
\* negated errno of the failing call, and the target is not exec'd after a
\* hook has returned non-zero.
C17_HookFailureReturnsErrno ==
    /\ hpc = "failed" => \E e \in Errnos : hret = -e
    /\ hret # 0 => ~TargetStarted

(***************************************************************************)
(* The exit code of meta-init.                                             *)
(***************************************************************************)
\* The signal number of a syscall or signal verdict, the status of a status
\* verdict.
VerdictNumber(b) == b[1][2]

\* meta-init has exited with the code c, and the supervisor, once it has
\* returned from the jail wait, with the same.
ExitsWith(c) ==
    /\ iret = ExitedStatus(c)
    /\ mpc = "done" => mret = c

\* C18 as stated: the exit code of meta-init, which the supervisor returns
\* from the jail wait, is 0 when the verdict is a normal exit of the target and
\* the reconciled signal number otherwise.
C18_ExitZeroOrSignal ==
    Emitted =>
        ExitsWith(IF IsStatusVerdict(VerdictBlock) THEN 0
                  ELSE VerdictNumber(VerdictBlock))

\* C18, amended: the exit code of meta-init, which the supervisor returns from
\* the jail wait, is the target's exit status when the verdict is a normal
\* exit of the target, and the reconciled signal number otherwise.
C18_ExitStatusOrSignal ==
    Emitted =>
        /\ IsStatusVerdict(VerdictBlock) \/ IsSignalVerdict(VerdictBlock)
             \/ IsSyscallVerdict(VerdictBlock)
        /\ ExitsWith(VerdictNumber(VerdictBlock))

\* The supervisor has returned the non-zero exit status of a target that
\* exited normally.
C18_Witness ==
    /\ Emitted
    /\ VerdictBlock = << <<"status", 7>> >>
    /\ mpc = "done"
    /\ mret = 7

(***************************************************************************)
(* The dispatch of a stop.                                                 *)
(***************************************************************************)
\* The process whose stop wait3 reported, before and after the step, and the
\* other one.
StoppedProcess == IF pid = child_pid THEN proc ELSE desc
StoppedProcessNext == IF pid = child_pid THEN proc' ELSE desc'
OtherProcessUnchanged == IF pid = child_pid THEN desc' = desc ELSE proc' = proc

\* C19: the dispatch of a stop with stop signal s takes exactly one of four
\* actions.  SIGSYS: exit_syscall becomes what PTRACE_GETSIGINFO tells (the
\* syscall of the stop while the process is stopped), the pid is killed and
\* exit_signal is kept.  SIGXCPU and SIGXFSZ: exit_signal becomes s, the pid
\* is killed and exit_syscall is kept.  SIGSTOP and SIGTRAP: the pid is
\* resumed with signal 0, both records kept.  Any other s: the pid is resumed
\* with s injected, both records kept.  No dispatch touches another process,
\* marks the child as exited or changes the captured status or usage.
C19_StopDispatch ==
    [][(ipc = "dispatch" /\ ipc' = "wait3") =>
         /\ CASE stop_signal = SIGSYS ->
                   /\ init_exitsyscall' \in SiSyscall(StoppedProcess)
                   /\ StoppedProcess.st = "stopped" =>
                        init_exitsyscall' = StoppedProcess.nr
                   /\ init_exitsignal' = init_exitsignal
                   /\ StoppedProcessNext = KilledProc(StoppedProcess)
              [] stop_signal \in {SIGXCPU, SIGXFSZ} ->
                   /\ init_exitsignal' = stop_signal
                   /\ init_exitsyscall' = init_exitsyscall
                   /\ StoppedProcessNext = KilledProc(StoppedProcess)
              [] stop_signal \in {SIGSTOP, SIGTRAP} ->
                   /\ StoppedProcessNext = Resumed(StoppedProcess, 0)
                   /\ init_exitsyscall' = init_exitsyscall
                   /\ init_exitsignal' = init_exitsignal
              [] OTHER ->
                   /\ StoppedProcessNext = Resumed(StoppedProcess, stop_signal)
                   /\ init_exitsyscall' = init_exitsyscall
                   /\ init_exitsignal' = init_exitsignal
         /\ OtherProcessUnchanged
         /\ init_exited' = init_exited
         /\ init_exitstatus' = init_exitstatus
         /\ init_usage' = init_usage]_vars

\* A stop of the orphaned descendant for SIGUSR1 has been dispatched: it runs
\* on with the signal pending, after the child's own exit was captured, and
\* nothing is recorded.
C19_Witness ==
    /\ ipc = "wait3"
    /\ ptraced.stops > 0
    /\ desc.st = "alive"
    /\ desc.sig = SIGUSR1
    /\ init_exited
    /\ WIFEXITED(init_exitstatus)
    /\ init_exitsyscall = -1
    /\ init_exitsignal = -1

(***************************************************************************)
(* PTRACE_SETOPTIONS.                                                      *)
(***************************************************************************)
\* C20: PTRACE_SETOPTIONS is issued on the first stop the supervise loop
\* observes, on the pid that reported it and before that stop is dispatched,
\* and never again: before any stop no call has been made, from the first
\* stop on exactly one has, on the pid of the first stop, however many stops
\* of that or of another pid follow.
C20_SetOptionsOnce ==
    /\ ptraced.stops = 0 => (ptraced.setoptions = <<>> /\ ~attached)
    /\ ptraced.stops > 0 => (ptraced.setoptions = <<ptraced.first>> /\ attached)
    /\ ipc = "dispatch" =>
         /\ ptraced.stops > 0
         /\ ptraced.stops = 1 => ptraced.setoptions = <<pid>>

\* A later stop, of the descendant, awaits its dispatch; the one call was made
\* on the child, whose stop was the first.
C20_Witness ==
    /\ ipc = "dispatch"
    /\ pid = DescendantPid
    /\ ptraced.stops = MaxStops
    /\ ptraced.first = child_pid
    /\ ptraced.setoptions = <<child_pid>>

(***************************************************************************)
(* The capture of the child's termination.                                 *)
(***************************************************************************)
\* A step of the supervise loop or of the terminal sweep assigns the captured
\* status, the captured usage or the exited mark.
Captures ==
    /\ ipc \in {"wait3", "sweep"}
    /\ \/ init_exitstatus' # init_exitstatus
       \/ init_usage' # init_usage
       \/ init_exited' # init_exited

\* C21: the captured exit status and usage are assigned only from a report of
\* the tracked child that is a termination (exited or signalled), never from a
\* stop report and never from a report of another process, in the supervise
\* loop and in the terminal sweep; the sweep assigns them only when the loop
\* had not.
C21_CaptureFromTermination ==
    [][Captures =>
         /\ ReportableProc(proc)
         /\ ~WIFSTOPPED(proc.status)
         /\ WIFEXITED(proc.status) \/ WIFSIGNALED(proc.status)
         /\ init_exitstatus' = proc.status
         /\ init_exited'
         /\ ~init_exited
         /\ desc' = desc]_vars

(***************************************************************************)
(* The reserved fds of the target.                                         *)
(***************************************************************************)
\* The process that execs the target has run its PRE_DROP_CAPS hooks.
HooksDone == hpc \in {"prexec", "execve", "target"}

\* C22: when the target image starts executing, fds 3, 4 and 5 are closed in
\* it, with and without a meta file: fds 5 and 4 are closed by the time the
\* hooks that run before the capabilities are dropped have returned, fd 3 by
\* the PRE_EXECVE hook, before execve; a close that fails leaves the launch
\* failed and the target not started.
C22_ReservedFdsClosed ==
    /\ HooksDone => tfds \subseteq {kLoggingFd}
    /\ hpc \in {"execve", "target"} => tfds = {}
    /\ (hpc = "failed" \/ tfds # {}) => ~TargetStarted

\* The target of a run with a meta file has started, all three fds closed.
C22_Witness ==
    /\ cfg.meta
    /\ TargetStarted
    /\ child_pid # 0
    /\ tfds = {}

(***************************************************************************)
(* Self-admission.                                                         *)
(***************************************************************************)
\* C23: the pid the forked child writes into an admission file is the pid of
\* the forked child, in a sandboxed run and in a run without sandboxing.
C23_SelfAdmission ==
    \A c \in CgNames : cgfs.adm[c] # 0 => cgfs.adm[c] = child_pid

(***************************************************************************)
(* Interrupted waits.                                                      *)
(***************************************************************************)
\* C24: a waiting call of meta-init that returns -1 with EINTR is made again:
\* the interruption of sigtimedwait does not end the supervise loop, and the
\* interruption of the sweep's wait3 does not end the sweep while children
\* remain.  (The drain's epoll_wait and recv are inside the one step that
\* ends the sweep.)
C24_EintrRetried ==
    [][eintr => ipc' = ipc]_vars

(***************************************************************************)
(* Clock arithmetic.                                                       *)
(***************************************************************************)
\* 0 <= tv_nsec < base.
Normalized(ts) == ts[2] >= 0 /\ ts[2] < NsecBase

\* C25: on normalized operands TimespecAdd and TimespecSub yield a normalized
\* pair that is the exact sum, the exact difference: the deadline is
\* normalized and is t0 plus the wall-time limit, and the timeout handed to
\* sigtimedwait is normalized and is the deadline minus t.
C25_TimespecNormalized ==
    /\ ipc # "none" =>
         /\ Normalized(t0)
         /\ Normalized(deadline)
         /\ \E timeout \in Timeouts :
              ClockUnits(deadline) = ClockUnits(t0) + ClockUnits(timeout)
    /\ ipc = "sigtimedwait" =>
         /\ Normalized(t)
         /\ Normalized(TimespecSub(deadline, t))
         /\ ClockUnits(TimespecSub(deadline, t)) =
              ClockUnits(deadline) - ClockUnits(t)

(***************************************************************************)
(* The pid namespace at emission.                                          *)
(***************************************************************************)
\* C26: in a sandboxed run, once the terminal sweep has sent its SIGKILL no
\* process of the pid namespace is alive or stopped, whether or not the
\* tracked child had already exited; and when the sweep has ended, so when the
\* meta record is written, the child and every descendant have been reaped:
\* none is alive and none is a zombie.
C26_NamespaceEmptyAtEmission ==
    ~cfg.disable_sandboxing =>
        /\ ipc \in {"sweep", "report", "done"} =>
             /\ proc.st \notin {"alive", "stopped"}
             /\ desc.st \notin {"alive", "stopped"}
        /\ ipc \in {"report", "done"} =>
             /\ proc.st = "gone"
             /\ desc.st \in {"none", "gone"}

\* The record is written after a run in which the child exited by itself, its
\* exit captured in the loop, and the descendant it left behind, never
\* stopped, was killed by the sweep and reaped.
C26_Witness ==
    /\ ~cfg.disable_sandboxing
    /\ Emitted
    /\ WIFEXITED(init_exitstatus)
    /\ ~at_deadline.hit
    /\ ptraced.stops = 0
    /\ proc.st = "gone"
    /\ desc.st = "gone"
    /\ desc.status = SignaledStatus(SIGKILL)

(***************************************************************************)
(* A target that finished in time.                                         *)
(***************************************************************************)
\* The tracked child exited by itself, no stop had recorded a signal or a
\* syscall and the observer delivered no value; its termination was captured
\* in the supervise loop when the deadline check found the deadline reached.
FinishedInTime ==
    /\ Emitted
    /\ WIFEXITED(init_exitstatus)
    /\ init_exitsyscall = -1
    /\ IF at_deadline.hit
       THEN /\ at_deadline.exited
            /\ at_deadline.signal = -1
            /\ at_deadline.syscall = -1
       ELSE init_exitsignal = -1

\* C27: a tracked child that exits with code c, is reaped inside the supervise
\* loop, with no SIGSYS, SIGXCPU or SIGXFSZ stop observed and no value from
\* the observer, gets the verdict status:c, whatever the clock reads when the
\* deadline check is made after the reap.
C27_InTimeExitIsStatus ==
    FinishedInTime =>
        VerdictBlock = << <<"status", WEXITSTATUS(init_exitstatus)>> >>

====
